---- MODULE Spec2Model ----
(***************************************************************************)
(* cppp - Constrained Perfect Phylogeny.                                   *)
(*                                                                         *)
(* A model of the realization operator and of the instance reduction       *)
(* (src/src/perfect_phylogeny.c) and of the depth-first decision tree      *)
(* (src/src/decision_tree.c).                                              *)
(*                                                                         *)
(* A state_s is a record.  Vertex ids of the red-black graph are           *)
(* 0..n0-1 for the species and n0..n0+m0-1 for the characters; a graph is  *)
(* the set of its edges, an edge the set of its two endpoints.  Arrays are *)
(* functions over 0..len-1.  The uint32_t value (uint32_t)-1 is written -1.*)
(***************************************************************************)
EXTENDS Integers, Sequences, FiniteSets, TLC

\* ------------------------------------------------------------------ bounds
MaxSpecies == 3
MaxChars == 2
\* the longest list of characters a replay is given
MaxList == 3

\* ------------------------------------------------------------- colours
BLACK == 1
RED == 2
REMOVED == RED + 1

VARIABLES
    st,         \* the working state of the API user (replay mode's stp)
    src,        \* source state of the last call of realize_character
    pre,        \* its dst at line 419, before cleanup ran
    dst,        \* its dst at return
    ret,        \* its return value
    last,       \* the last operation: "load", "realize", "cleanup"
    aborted,    \* an assertion failed: the process is gone
    strategy,   \* the strategy_fn handed to exhaustive_search
    states,     \* the driver's slot array
    level,      \* the driver's current level
    pc,         \* where exhaustive_search is
    emitted,    \* what exhaustive_search printed as the solution
    input,      \* the instance file the loader reads
    file,       \* the snapshot on disk: the JSON document and its two graph files
    index,      \* replay mode: the number of listed characters consumed
    accepted    \* replay mode: how many of them were accepted

vars == <<st, src, pre, dst, ret, last, aborted, strategy, states, level, pc, emitted,
          input, file, index, accepted>>

\* ---------------------------------------------------------------- graphs
\* igraph_neighbors(g, &res, v, IGRAPH_ALL)
igraph_neighbors(g, v) == {u \in UNION g : {u, v} \in g /\ u # v}

\* the number of edges of igraph_es_incident(&es, v, IGRAPH_ALL)
igraph_es_size(g, v) == Cardinality({e \in g : v \in e})

RECURSIVE reach(_, _)
reach(g, S) ==
    LET T == S \cup {u \in UNION g : \E v \in S : {u, v} \in g}
    IN  IF T = S THEN S ELSE reach(g, T)

\* igraph_subcomponent(g, &res, v, IGRAPH_ALL)
igraph_subcomponent(g, v) == reach(g, {v})

\* an edge deletion that deletes nothing
igraph_delete_nothing(g, v) == g

\* igraph_delete_edges(g, igraph_es_incident(v))
igraph_delete_incident(g, v) == {e \in g : v \notin e}

\* ----------------------------------------------------------------- state
\* a matrix_get_value that reads the matrix column by column
matrix_get_value_transposed(stp, species, character) ==
    stp.matrix[species + stp.num_species * character]

matrix_get_value(stp, species, character) ==
    stp.matrix[character + stp.num_characters * species]

init_state(nspecies, nchars) ==
    [ num_characters_orig |-> nchars,
      num_species_orig    |-> nspecies,
      num_characters      |-> nchars,
      num_species         |-> nspecies,
      tried_characters    |-> <<>>,
      character_queue     |-> <<>>,
      realize             |-> 0,
      red_black           |-> {},
      conflict            |-> {},
      operation           |-> 0,
      species             |-> [i \in 0..(nspecies - 1) |-> 1],
      current_states      |-> [i \in 0..(nchars - 1) |-> 0],
      characters          |-> [i \in 0..(nchars - 1) |-> 1],
      colors              |-> [i \in 0..(nchars - 1) |-> BLACK],
      matrix              |-> <<>> ]

check_state(stp) ==
    LET e1 == IF stp.num_species = -1 \/ stp.num_species > stp.num_species_orig
              THEN 1 ELSE 0
        e2 == IF stp.num_characters = -1 \/ stp.num_characters > stp.num_characters_orig
              THEN 2 ELSE 0
        e4 == IF Cardinality({s \in DOMAIN stp.species : stp.species[s] # 0})
                    # stp.num_species THEN 4 ELSE 0
        e8 == IF Cardinality({c \in DOMAIN stp.characters : stp.characters[c] # 0})
                    # stp.num_characters THEN 8 ELSE 0
        e16 == IF Cardinality({c \in DOMAIN stp.current_states : stp.current_states[c] # -1})
                    # stp.num_characters THEN 16 ELSE 0
    IN  e1 + e2 + e4 + e8 + e16

\* a delete_species that forgets to decrement num_species
delete_species_keeps_count(stp, s) ==
    [stp EXCEPT !.species[s] = 0]

delete_species(stp, s) ==
    [stp EXCEPT !.species[s] = 0, !.num_species = @ - 1]

delete_character(stp, c) ==
    [stp EXCEPT !.characters[c] = 0, !.current_states[c] = -1, !.num_characters = @ - 1]

\* the assertions of delete_character
delete_character_ok(stp, c) ==
    /\ c < stp.num_characters_orig
    /\ stp.characters[c] > 0
    /\ stp.current_states[c] # -1

\* void cleanup(state_s *stp): the loop over the species, from s on
RECURSIVE cleanup_species(_, _)
cleanup_species(stp, s) ==
    IF s >= stp.num_species_orig THEN stp
    ELSE cleanup_species(
            IF stp.species[s] # 0 /\ igraph_es_size(stp.red_black, s) = 0
            THEN delete_species(stp, s) ELSE stp,
            s + 1)

\* a loop over the characters that deletes none
cleanup_characters_none(stp, c) == stp

\* void cleanup(state_s *stp): the loop over the characters, from c on
RECURSIVE cleanup_characters(_, _)
cleanup_characters(stp, c) ==
    IF c >= stp.num_characters_orig THEN stp
    ELSE cleanup_characters(
            IF stp.characters[c] # 0
               /\ igraph_es_size(stp.red_black, stp.num_species_orig + c) = 0
            THEN delete_character(stp, c) ELSE stp,
            c + 1)

\* a cleanup that runs one of its two loops: the species if one is null
cleanup_one_loop(stp) ==
    IF cleanup_species(stp, 0) # stp THEN cleanup_species(stp, 0)
    ELSE cleanup_characters(stp, 0)

cleanup(stp) == cleanup_characters(cleanup_species(stp, 0), 0)

\* no assertion of delete_species / delete_character fails within cleanup(stp)
cleanup_ok(stp) ==
    \A c \in DOMAIN stp.characters :
        (stp.characters[c] # 0
         /\ igraph_es_size(stp.red_black, stp.num_species_orig + c) = 0)
            => delete_character_ok(stp, c)

\* a copy that also copies tried_characters and character_queue
copy_state_with_lists(from) == from

\* copy_state(dst, src): the lists are not copied, the matrix is shared
copy_state(from) ==
    [ init_state(from.num_species_orig, from.num_characters_orig) EXCEPT
        !.realize        = from.realize,
        !.tried_characters = <<>>,
        !.character_queue  = <<>>,
        !.num_species    = from.num_species,
        !.num_characters = from.num_characters,
        !.red_black      = from.red_black,
        !.conflict       = from.conflict,
        !.matrix         = from.matrix,
        !.current_states = from.current_states,
        !.characters     = from.characters,
        !.colors         = from.colors,
        !.species        = from.species,
        !.operation      = from.operation ]

\* uint32_t state_cmp(stp1, stp2): a bit for each field that differs
state_cmp(stp1, stp2) ==
    (IF stp1.num_characters # stp2.num_characters THEN 1 ELSE 0)
    + (IF stp1.num_species # stp2.num_species THEN 2 ELSE 0)
    + (IF stp1.num_characters_orig # stp2.num_characters_orig THEN 4 ELSE 0)
    + (IF stp1.num_species_orig # stp2.num_species_orig THEN 8 ELSE 0)
    + (IF \E i \in 0..(stp2.num_characters_orig - 1) :
             stp1.current_states[i] # stp2.current_states[i] THEN 16 ELSE 0)
    + (IF \E i \in 0..(stp2.num_species_orig - 1) :
             stp1.species[i] # stp2.species[i] THEN 32 ELSE 0)
    + (IF \E i \in 0..(stp2.num_characters_orig - 1) :
             stp1.characters[i] # stp2.characters[i] THEN 64 ELSE 0)

\* a not_adjacent that finds no species
not_adjacent_none(g, n0, c) == {}

\* a not_adjacent that keeps the characters of the component as well
not_adjacent_any_vertex(g, n0, c) ==
    (igraph_subcomponent(g, c) \ igraph_neighbors(g, c)) \ {c}

\* the vector not_adjacent of realize_character: the species of the connected
\* component of c that are not neighbours of c
not_adjacent(g, n0, c) ==
    LET conn_comp == igraph_subcomponent(g, c)
        adjacent  == igraph_neighbors(g, c)
        temp      == conn_comp \ adjacent
    IN  {v \in temp : v < n0 /\ v # c}

\* the edge vector new_red of realize_character
new_red(g, n0, c) == {{c, v} : v \in not_adjacent(g, n0, c)}

\* a BLACK realization that leaves the colour of the character BLACK
realize_black_keeps_colour(d1, g0, character) ==
    [d1 EXCEPT !.red_black = @ \cup new_red(g0, d1.num_species_orig,
                                            d1.num_species_orig + character),
               !.operation = 1,
               !.current_states[character] = 1]

\* realize_character, color == BLACK: the new red edges, operation 1, RED, state 1
realize_black(d1, g0, character) ==
    [d1 EXCEPT !.red_black = @ \cup new_red(g0, d1.num_species_orig,
                                            d1.num_species_orig + character),
               !.operation = 1,
               !.colors[character] = RED,
               !.current_states[character] = 1]

\* a removal that resets the colour to BLACK instead of RED + 1
realize_red_to_black(d1, character) ==
    [d1 EXCEPT !.operation = 2, !.colors[character] = BLACK]

\* realize_character, color == RED and not_adjacent empty, up to delete_character
realize_red(d1, character) ==
    [d1 EXCEPT !.operation = 2, !.colors[character] = RED + 1]

(* bool realize_character(state_s* dst, const state_s* src).
   The result: abort (an assertion failed), ret (the value returned), pre (dst
   at the assertion of line 419, before cleanup), dst (dst at return, or where
   the assertion failed). *)
realize_character(from) ==
    LET character == from.realize
        n0    == from.num_species_orig
        c     == n0 + character
        color == from.colors[character]
        d0    == copy_state(from)
        nadj  == not_adjacent(d0.red_black, n0, c)
        d1    == [d0 EXCEPT !.red_black = igraph_delete_incident(@, c)]
        recol == realize_red(d1, character)
        d2    == IF color = BLACK THEN realize_black(d1, d0.red_black, character)
                 ELSE IF color = RED THEN delete_character(recol, character)
                 ELSE d1
        d3    == [d2 EXCEPT !.realize = character]
        d4    == cleanup(d3)
    IN  IF check_state(from) # 0
        THEN [abort |-> TRUE, ret |-> FALSE, pre |-> from, dst |-> from]
        ELSE IF color = RED /\ nadj # {}
        THEN [abort |-> FALSE, ret |-> FALSE,
              pre |-> [d1 EXCEPT !.operation = 0],
              dst |-> [d1 EXCEPT !.operation = 0]]
        ELSE IF color = RED /\ ~delete_character_ok(recol, character)
        THEN [abort |-> TRUE, ret |-> FALSE, pre |-> recol, dst |-> recol]
        ELSE IF check_state(d3) # 0 \/ ~cleanup_ok(d3)
        THEN [abort |-> TRUE, ret |-> FALSE, pre |-> d3, dst |-> d3]
        ELSE IF check_state(d4) # 0
        THEN [abort |-> TRUE, ret |-> FALSE, pre |-> d3, dst |-> d4]
        ELSE [abort |-> FALSE, ret |-> TRUE, pre |-> d3, dst |-> d4]

\* a pair_states that counts the pair (0, 0) as seen in any case
pair_states_rooted(stp, c1, c2) ==
    {<<0, 0>>} \cup
    {<<matrix_get_value(stp, s, c1), matrix_get_value(stp, s, c2)>> :
        s \in 0..(stp.num_species - 1)}

\* the cells of columns c1 and c2 that occur together in some species
pair_states(stp, c1, c2) ==
    {<<matrix_get_value(stp, s, c1), matrix_get_value(stp, s, c2)>> :
        s \in 0..(stp.num_species - 1)}

(* read_instance_from_filename: the state of the instance with nspecies rows,
   nchars columns and the cells mat, in row-major order *)
read_instance_from_filename(nspecies, nchars, mat) ==
    LET s0 == [init_state(nspecies, nchars) EXCEPT !.matrix = mat]
    IN  [s0 EXCEPT
          !.red_black = {{s, c + s0.num_species} :
                           <<s, c>> \in {p \in (0..(nspecies - 1)) \X (0..(nchars - 1)) :
                                           matrix_get_value(s0, p[1], p[2]) = 1}},
          !.conflict  = {{c1, c2} :
                           <<c1, c2>> \in {p \in (0..(nchars - 1)) \X (0..(nchars - 1)) :
                                           /\ p[1] < p[2]
                                           /\ Cardinality(pair_states(s0, p[1], p[2])) = 4}}]

\* ------------------------------------------------------------- strategies
Strategies == {"natural", "reverse"}

RECURSIVE ascending(_, _, _)
ascending(stp, c, color) ==
    IF c >= stp.num_characters_orig THEN <<>>
    ELSE (IF stp.characters[c] = color THEN <<c>> ELSE <<>>)
            \o ascending(stp, c + 1, color)

\* characters_list: the characters with characters[c] = 1, in index order
characters_list(stp) == ascending(stp, 0, 1)

RECURSIVE reversed(_)
reversed(q) == IF q = <<>> THEN <<>> ELSE reversed(Tail(q)) \o <<Head(q)>>

\* node_init(current): the candidates of a node, in the order to try them
node_init(kind, stp) ==
    IF kind = "natural" THEN characters_list(stp) ELSE reversed(characters_list(stp))

\* ------------------------------------------------------------ the driver
\* the field realized_char of a state
realized_char(stp) == stp.realize

\* the slot array has a slot for each level 0..num_characters_orig
last_slot(stp) == stp.num_characters_orig

\* a next_node that realizes in place: the result of an accepted or rejected
\* realization overwrites the slot it was made from
next_node_in_place(slots, lv, kind) ==
    LET current == slots[lv]
        queue   == IF current.tried_characters = <<>> /\ current.character_queue = <<>>
                   THEN node_init(kind, current)
                   ELSE current.character_queue
        popped  == [current EXCEPT
                      !.character_queue = Tail(queue),
                      !.tried_characters = <<realized_char(current)>> \o @]
        r       == realize_character(popped)
    IN  IF queue = <<>>
        THEN [states |-> slots, level |-> lv - 1, end |-> "ok"]
        ELSE IF r.abort
        THEN [states |-> [slots EXCEPT ![lv] = popped], level |-> lv, end |-> "abort"]
        ELSE [states |-> [slots EXCEPT ![lv] =
                            [r.dst EXCEPT
                               !.character_queue = popped.character_queue,
                               !.tried_characters = popped.tried_characters]],
              level |-> lv, end |-> "ok"]

\* a next_node that pops the head and records nothing in tried_characters
next_node_forgets_tried(slots, lv, kind) ==
    LET current == slots[lv]
        entered == IF current.tried_characters = <<>> /\ current.character_queue = <<>>
                   THEN [current EXCEPT !.character_queue = node_init(kind, current)]
                   ELSE current
        popped  == [entered EXCEPT !.character_queue = Tail(@)]
        r       == realize_character(popped)
    IN  IF entered.character_queue = <<>>
        THEN [states |-> [slots EXCEPT ![lv] = entered], level |-> lv - 1, end |-> "ok"]
        ELSE IF r.abort
        THEN [states |-> [slots EXCEPT ![lv] = popped], level |-> lv, end |-> "abort"]
        ELSE IF r.dst.operation > 0 /\ lv + 1 <= last_slot(current)
        THEN [states |-> [slots EXCEPT ![lv] = popped, ![lv + 1] = copy_state(r.dst)],
              level |-> lv + 1, end |-> "ok"]
        ELSE [states |-> [slots EXCEPT ![lv] = popped], level |-> lv, end |-> "ok"]

(* uint32_t next_node(state_s *states, uint32_t level, strategy_fn node_init).
   The result: the slot array, the level returned, and how the call ended:
   "ok", "abort" (an assertion failed) or "overflow" (a write past the last
   slot). *)
next_node(slots, lv, kind) ==
    LET current == slots[lv]
        entered == IF current.tried_characters = <<>> /\ current.character_queue = <<>>
                   THEN [current EXCEPT !.character_queue = node_init(kind, current)]
                   ELSE current
        to_realize == Head(entered.character_queue)
        popped  == [entered EXCEPT
                      !.character_queue = Tail(@),
                      !.tried_characters = <<realized_char(current)>> \o @]
        \* realize_character(modified, current, to_realize): realize_character
        \* has two parameters and realizes current->realize
        r       == realize_character(popped)
        modified == r.dst
    IN  IF entered.character_queue = <<>>
        THEN [states |-> [slots EXCEPT ![lv] = entered], level |-> lv - 1, end |-> "ok"]
        ELSE IF r.abort
        THEN [states |-> [slots EXCEPT ![lv] = popped], level |-> lv, end |-> "abort"]
        ELSE IF modified.operation > 0
        THEN IF check_state(modified) # 0
             THEN [states |-> [slots EXCEPT ![lv] = popped], level |-> lv, end |-> "abort"]
             ELSE IF lv + 1 > last_slot(current)
             THEN [states |-> [slots EXCEPT ![lv] = popped], level |-> lv + 1,
                   end |-> "overflow"]
             ELSE [states |-> [slots EXCEPT ![lv] = popped, ![lv + 1] = copy_state(modified)],
                   level |-> lv + 1, end |-> "ok"]
        ELSE [states |-> [slots EXCEPT ![lv] = popped], level |-> lv, end |-> "ok"]

\* ------------------------------------------------------------------ Init
\* every instance of at most MaxSpecies species and MaxChars characters
Matrices ==
    UNION {{read_instance_from_filename(n, m, mat) :
                mat \in [0..(n * m - 1) -> {0, 1}]} :
            <<n, m>> \in (1..MaxSpecies) \X (1..MaxChars)}

\* the cells of a matrix given by its rows, in row-major order
RowMajor(rows) ==
    [i \in 0..(Len(rows) * Len(rows[1]) - 1) |->
        rows[(i \div Len(rows[1])) + 1][(i % Len(rows[1])) + 1]]

Load(rows) == read_instance_from_filename(Len(rows), Len(rows[1]), RowMajor(rows))

\* the instances of the end-to-end scenarios
S1 == Load(<< <<1, 0>>, <<0, 1>> >>)
S2 == Load(<< <<1, 1, 0>>, <<1, 0, 1>>, <<0, 1, 1>> >>)
S3 == Load(<< <<1, 0>>, <<1, 1>>, <<0, 1>> >>)
S6 == Load(<< <<1, 0>>, <<1, 1>> >>)

Instances == Matrices \cup {S1, S2, S3, S6}

\* no instance file and no snapshot is in use
NoFiles == input = <<>> /\ file = <<>> /\ index = 0 /\ accepted = 0

\* a user of the API has loaded an instance; no search runs
Init ==
    /\ st \in Instances
    /\ src = st /\ pre = st /\ dst = st
    /\ ret = FALSE
    /\ last = "load"
    /\ aborted = FALSE
    /\ strategy = "natural"
    /\ states = <<>>
    /\ level = 0
    /\ pc = "idle"
    /\ emitted = <<>>
    /\ NoFiles

\* exhaustive_search is called on the slot array whose slot 0 is a loaded instance
InitDriver ==
    /\ \E inst \in Instances :
          /\ states = [l \in 0..last_slot(inst) |-> inst]
          /\ st = inst
    /\ src = st /\ pre = st /\ dst = st
    /\ ret = FALSE
    /\ last = "load"
    /\ aborted = FALSE
    /\ strategy \in Strategies
    /\ level = 0
    /\ pc = "start"
    /\ emitted = <<>>
    /\ NoFiles

driver_vars == <<strategy, states, level, pc, emitted>>
io_vars == <<input, file, index, accepted>>
api_vars == <<st, src, pre, dst, ret, last, aborted>>

\* ------------------------------------------------- the operator, as an API
(* A caller sets stp->realize = c and calls realize_character.  The caller
   never asks for a character whose colour is REMOVED.  An accepted child
   becomes the working state. *)
Realize(c) ==
    /\ ~aborted
    /\ st.colors[c] # REMOVED
    /\ LET from == [st EXCEPT !.realize = c]
           r    == realize_character(from)
       IN  /\ src' = from
           /\ pre' = r.pre
           /\ dst' = r.dst
           /\ ret' = r.ret
           /\ aborted' = r.abort
           /\ last' = "realize"
           /\ st' = IF r.ret THEN r.dst ELSE from
    /\ UNCHANGED driver_vars
    /\ UNCHANGED io_vars

Cleanup ==
    /\ ~aborted
    /\ st' = cleanup(st)
    /\ aborted' = ~cleanup_ok(st)
    /\ last' = "cleanup"
    /\ UNCHANGED <<src, pre, dst, ret>>
    /\ UNCHANGED driver_vars
    /\ UNCHANGED io_vars

Next ==
    \/ \E c \in DOMAIN st.characters : Realize(c)
    \/ Cleanup

Spec == Init /\ [][Next]_vars

\* ------------------------------------------------------ exhaustive_search
\* uint32_t level = next_node(states, 0, strategy);
SearchStart ==
    /\ pc = "start"
    /\ LET r == next_node(states, 0, strategy)
       IN  /\ states' = r.states
           /\ level' = r.level
           /\ pc' = IF r.end = "ok" THEN "loop" ELSE r.end
    /\ UNCHANGED <<strategy, emitted>>
    /\ UNCHANGED api_vars
    /\ UNCHANGED io_vars

\* one iteration of the for loop: level != -1
SearchLoop ==
    /\ pc = "loop"
    /\ level # -1
    /\ LET cleaned == [states EXCEPT ![level] = cleanup(@)]
           r == next_node(cleaned, level, strategy)
       IN  IF ~cleanup_ok(states[level])
           THEN /\ pc' = "abort"
                /\ UNCHANGED <<states, level, emitted>>
           ELSE IF cleaned[level].num_species = 0
           THEN /\ pc' = "solution"
                /\ states' = cleaned
                /\ emitted' = [i \in 1..(level + 1) |-> realized_char(cleaned[level])]
                /\ UNCHANGED level
           ELSE /\ states' = r.states
                /\ level' = r.level
                /\ pc' = IF r.end = "ok" THEN "loop" ELSE r.end
                /\ UNCHANGED emitted
    /\ UNCHANGED strategy
    /\ UNCHANGED api_vars
    /\ UNCHANGED io_vars

\* the loop ends: printf("END\n")
SearchEnd ==
    /\ pc = "loop"
    /\ level = -1
    /\ pc' = "END"
    /\ UNCHANGED <<strategy, states, level, emitted>>
    /\ UNCHANGED api_vars
    /\ UNCHANGED io_vars

NextDriver == SearchStart \/ SearchLoop \/ SearchEnd

SpecDriver == InitDriver /\ [][NextDriver]_vars

\* ------------------------------------------------------------ the loader
\* a 4 x 4 instance (scenario S4 gives the size only)
S4 == Load(<< <<0, 0, 1, 1>>, <<0, 1, 0, 1>>, <<1, 0, 0, 1>>, <<1, 1, 1, 0>> >>)

(* The instance file of S: the header num_species num_characters and the
   cells in row-major order, every token followed by white space. *)
instance_file(S) ==
    [ num_species    |-> S.num_species_orig,
      num_characters |-> S.num_characters_orig,
      cells          |-> [i \in 1..(S.num_species_orig * S.num_characters_orig) |->
                             S.matrix[i - 1]] ]

\* the file that ends after its k-th cell
truncated(f, k) == [f EXCEPT !.cells = SubSeq(@, 1, k)]

\* the file whose k-th cell is 2
non_binary(f, k) == [f EXCEPT !.cells[k] = 2]

\* the files of the given instances: well-formed, truncated, with a cell 2
InstanceFiles(instances) ==
    LET good == {instance_file(S) : S \in instances}
    IN  good
        \cup UNION {{truncated(f, k) : k \in 0..(Len(f.cells) - 1)} : f \in good}
        \cup UNION {{non_binary(f, k) : k \in 1..Len(f.cells)} : f \in good}

\* the state_s that read_instance_from_filename has not filled
NoState == init_state(0, 0)

(* the pairs of columns c1 < c2 for which line 506 writes
   states[matrix_get_value(s, c1)][matrix_get_value(s, c2)] outside states[2][2] *)
out_of_bounds(stp) ==
    {{p[1], p[2]} :
        p \in {q \in (0..(stp.num_characters_orig - 1)) \X (0..(stp.num_characters_orig - 1)) :
                 /\ q[1] < q[2]
                 /\ \E s \in 0..(stp.num_species_orig - 1) :
                       \/ matrix_get_value(stp, s, q[1]) > 1
                       \/ matrix_get_value(stp, s, q[2]) > 1}}

(* bool read_instance_from_filename(global_props, stp) on the file f: the set
   of its outcomes.  end is "true" or "false", the value returned, or "abort".
   End of file at the first cell returns false (lines 487-490); end of file at a
   later cell fails the assertion of line 486.  A cell is stored as it is read;
   a write outside states[2][2] is undefined: the process dies, or the
   edges of the conflict graph on those columns are arbitrary. *)
read_instance(f) ==
    LET n   == f.num_species
        m   == f.num_characters
        mat == [i \in 0..(n * m - 1) |-> f.cells[i + 1]]
        S   == read_instance_from_filename(n, m, mat)
        oob == out_of_bounds(S)
    IN  IF Len(f.cells) = 0
        THEN {[end |-> "false", state |-> NoState]}
        ELSE IF Len(f.cells) < n * m
        THEN {[end |-> "abort", state |-> NoState]}
        ELSE IF oob = {}
        THEN {[end |-> "true", state |-> S]}
        ELSE {[end |-> "true", state |-> [S EXCEPT !.conflict = (@ \ oob) \cup w]] :
                w \in SUBSET oob}
             \cup {[end |-> "abort", state |-> NoState]}

\* a program is about to call read_instance_from_filename on an instance file
InitLoader ==
    /\ input \in InstanceFiles(Instances \cup {S4})
    /\ st = NoState
    /\ src = st /\ pre = st /\ dst = st
    /\ ret = FALSE
    /\ last = "none"
    /\ aborted = FALSE
    /\ strategy = "natural"
    /\ states = <<>>
    /\ level = 0
    /\ pc = "read_instance"
    /\ emitted = <<>>
    /\ file = <<>> /\ index = 0 /\ accepted = 0

\* the call of read_instance_from_filename
ReadInstance ==
    /\ pc = "read_instance"
    /\ \E r \in read_instance(input) :
          /\ st' = r.state
          /\ pc' = r.end
          /\ aborted' = (r.end = "abort")
    /\ last' = "load"
    /\ UNCHANGED <<src, pre, dst, ret, strategy, states, level, emitted>>
    /\ UNCHANGED io_vars

NextLoader == ReadInstance

SpecLoader == InitLoader /\ [][NextLoader]_vars

\* ------------------------------------------------------ the snapshot codec
\* json_integer(v) and json_integer_value(j)
json_integer(v) == [integer |-> v]
json_integer_value(j) == j.integer

\* json_string(s) and json_string_value(j)
json_string(s) == [string |-> s]
json_string_value(j) == j.string

\* the JSON array of p[0], ..., p[size - 1]
array2json_array(p, size) == [array |-> [i \in 1..size |-> json_integer(p[i - 1])]]

\* the JSON array of the elements of a GSList
gslist2json_array(list) == [array |-> [i \in 1..Len(list) |-> json_integer(list[i])]]

json_array2gslist(j) == [i \in 1..Len(j.array) |-> json_integer_value(j.array[i])]

json_array2array(j) ==
    [i \in 0..(Len(j.array) - 1) |-> json_integer_value(j.array[i + 1])]

json_get_integer(root, field) == json_integer_value(root[field])

json_get_string(root, field) == json_string_value(root[field])

json_get_array(root, field) == json_array2array(root[field])

\* with optional the field is not looked at and the list is NULL
json_get_list(root, field, optional) ==
    IF ~optional THEN json_array2gslist(root[field]) ELSE <<>>

\* a GraphML file: an edge element source, target for every edge
igraph_write_graph_graphml(g) ==
    [edges |-> {<<CHOOSE u \in e : \A w \in e : u <= w,
                  CHOOSE v \in e : \A w \in e : w <= v>> : e \in g}]

igraph_read_graph_graphml(f) == {{e[1], e[2]} : e \in f.edges}

(* build_json_state.  A matrix pointer that was never set (init_state leaves
   it alone) is taken as NULL: the field matrix is then left out, here empty. *)
build_json_state(stp, redblack_filename, conflict_filename) ==
    [ realize             |-> json_integer(stp.realize),
      tried_characters    |-> gslist2json_array(stp.tried_characters),
      character_queue     |-> gslist2json_array(stp.character_queue),
      num_species         |-> json_integer(stp.num_species),
      num_characters      |-> json_integer(stp.num_characters),
      num_species_orig    |-> json_integer(stp.num_species_orig),
      num_characters_orig |-> json_integer(stp.num_characters_orig),
      matrix              |-> array2json_array(stp.matrix,
                                 IF stp.matrix = <<>> THEN 0
                                 ELSE stp.num_species * stp.num_characters),
      current             |-> array2json_array(stp.current_states, stp.num_characters_orig),
      species             |-> array2json_array(stp.species, stp.num_species_orig),
      characters          |-> array2json_array(stp.characters, stp.num_characters_orig),
      red_black_file      |-> json_string(redblack_filename),
      conflict_file       |-> json_string(conflict_filename) ]

\* write_state: the files written, by name
write_state(stp) ==
    [ json     |-> build_json_state(stp, "redblack", "conflict"),
      redblack |-> igraph_write_graph_graphml(stp.red_black),
      conflict |-> igraph_write_graph_graphml(stp.conflict) ]

\* the assertions of write_state and build_json_state
write_state_ok(stp) == check_state(stp) = 0

\* read_state: the state read from the files fs
read_state(fs) ==
    LET data == fs.json
    IN  [ init_state(json_get_integer(data, "num_species_orig"),
                     json_get_integer(data, "num_characters_orig")) EXCEPT
            !.realize          = json_get_integer(data, "realize"),
            !.tried_characters = json_get_list(data, "tried_characters", TRUE),
            !.character_queue  = json_get_list(data, "character_queue", TRUE),
            !.num_species      = json_get_integer(data, "num_species"),
            !.num_characters   = json_get_integer(data, "num_characters"),
            !.current_states   = json_get_array(data, "current"),
            !.species          = json_get_array(data, "species"),
            !.characters       = json_get_array(data, "characters"),
            !.red_black        = igraph_read_graph_graphml(
                                    fs[json_get_string(data, "red_black_file")]),
            !.conflict         = igraph_read_graph_graphml(
                                    fs[json_get_string(data, "conflict_file")]) ]

\* ------------------------------------------------------- main, replay mode
\* slot 0 of the driver after the first call of next_node on a loaded instance
first_node(inst, kind) ==
    next_node([l \in 0..last_slot(inst) |-> inst], 0, kind).states[0]

\* the states whose snapshots are replayed: loaded instances and search nodes
Dumped(instances) ==
    instances \cup {first_node(inst, kind) : inst \in instances, kind \in Strategies}

(* write_state has written the snapshot of a state (as write_json_3 does for a
   loaded instance); st and src hold that state.  main is about to read the
   snapshot back. *)
InitReplay ==
    /\ st \in Dumped(Instances \cup {S4})
    /\ file = write_state(st)
    /\ src = st /\ pre = st /\ dst = st
    /\ ret = FALSE
    /\ last = "write"
    /\ aborted = FALSE
    /\ strategy = "natural"
    /\ states = <<>>
    /\ level = 0
    /\ pc = "main"
    /\ emitted = <<>>
    /\ input = <<>>
    /\ index = 0
    /\ accepted = 0

\* read_state(input_json_filename, &st); assert(check_state(stp) == 0);
ReplayRead ==
    /\ pc = "main"
    /\ st' = read_state(file)
    /\ aborted' = (check_state(read_state(file)) # 0)
    /\ pc' = IF check_state(read_state(file)) # 0 THEN "abort" ELSE "foreach"
    /\ last' = "read"
    /\ UNCHANGED <<src, pre, dst, ret, strategy, states, level, emitted>>
    /\ UNCHANGED io_vars

(* the body of json_array_foreach for the listed character c:
   stp->realize = c; realize_character(&st2, stp); copy_state(stp, &st2);
   assert(check_state(stp) == 0); *)
ReplayStep(c) ==
    /\ pc = "foreach"
    /\ index < MaxList
    /\ LET from == [st EXCEPT !.realize = c]
           r    == realize_character(from)
           dead == r.abort \/ check_state(r.dst) # 0
       IN  /\ src' = from
           /\ pre' = r.pre
           /\ dst' = r.dst
           /\ ret' = r.ret
           /\ aborted' = dead
           /\ st' = IF dead THEN from ELSE copy_state(r.dst)
           /\ pc' = IF dead THEN "abort" ELSE "foreach"
           /\ accepted' = IF r.ret /\ ~dead THEN accepted + 1 ELSE accepted
    /\ last' = "realize"
    /\ index' = index + 1
    /\ UNCHANGED <<strategy, states, level, emitted, input, file>>

(* assert(check_state(stp) == 0); write_state(output, stp); return EXIT_SUCCESS.
   The matrix pointer of a state that read_state filled was never set: reading
   it is undefined, and the process dies or goes on. *)
WriteOutput(stp) ==
    \E dies \in (IF stp.matrix = <<>> THEN BOOLEAN ELSE {FALSE}) :
        IF dies \/ ~write_state_ok(stp)
        THEN /\ pc' = "abort"
             /\ aborted' = TRUE
             /\ UNCHANGED file
        ELSE /\ pc' = "EXIT_SUCCESS"
             /\ aborted' = FALSE
             /\ file' = write_state(stp)

\* the list of characters is empty: cleanup(stp), then the output is written
ReplayCleanup ==
    /\ pc = "foreach"
    /\ index = 0
    /\ st' = cleanup(st)
    /\ IF ~cleanup_ok(st)
       THEN pc' = "abort" /\ aborted' = TRUE /\ UNCHANGED file
       ELSE WriteOutput(cleanup(st))
    /\ last' = "cleanup"
    /\ UNCHANGED <<src, pre, dst, ret, strategy, states, level, emitted,
                   input, index, accepted>>

\* the list of characters is exhausted: the output is written
ReplayWrite ==
    /\ pc = "foreach"
    /\ index > 0
    /\ WriteOutput(st)
    /\ last' = "write"
    /\ UNCHANGED <<st, src, pre, dst, ret, strategy, states, level, emitted,
                   input, index, accepted>>

NextReplay ==
    \/ ReplayRead
    \/ \E c \in DOMAIN st.characters : ReplayStep(c)
    \/ ReplayCleanup
    \/ ReplayWrite

SpecReplay == InitReplay /\ [][NextReplay]_vars

\* =================================================================== claims
\* the species of the connected component of character c in S.red_black that
\* are not adjacent to c
D(S, c) ==
    {s \in 0..(S.num_species_orig - 1) :
        /\ s \in reach(S.red_black, {S.num_species_orig + c})
        /\ {s, S.num_species_orig + c} \notin S.red_black}

\* the edges of g that are not incident on v
Others(g, v) == {e \in g : v \notin e}

\* the last operation was a call of realize_character on a character of colour col
Realized(col) == last = "realize" /\ src.colors[src.realize] = col

(* C1: realizing a BLACK character c is always accepted; before Cleanup runs
   the neighbours of n0+c in the child are exactly the species of c's component
   in the source that were not adjacent to c, every other edge is as in the
   source, colors[c] = RED, current_state[c] = 1 and operation = 1. *)
C1_BlackRealization ==
    Realized(BLACK) =>
        LET c == src.realize
            v == src.num_species_orig + c
        IN  /\ ret = TRUE
            /\ igraph_neighbors(pre.red_black, v) = D(src, c)
            /\ Others(pre.red_black, v) = Others(src.red_black, v)
            /\ pre.colors[c] = RED
            /\ pre.current_states[c] = 1
            /\ pre.operation = 1
            /\ dst.operation = 1

(* C2: realizing a RED character c adjacent to every species of its component
   is accepted with operation = 2; before Cleanup runs no edge is incident on
   n0+c, colors[c] = REMOVED, current_state[c] = -1, char_active[c] = 0 and m
   is one less than in the source. *)
C2_RedRemoval ==
    (Realized(RED) /\ D(src, src.realize) = {}) =>
        LET c == src.realize
            v == src.num_species_orig + c
        IN  /\ ret = TRUE
            /\ pre.operation = 2
            /\ dst.operation = 2
            /\ \A e \in pre.red_black : v \notin e
            /\ Others(pre.red_black, v) = Others(src.red_black, v)
            /\ pre.colors[c] = REMOVED
            /\ pre.current_states[c] = -1
            /\ pre.characters[c] = 0
            /\ pre.num_characters = src.num_characters - 1

(* C3: realizing a RED character c while a species of its component is not
   adjacent to it is rejected: false is returned, operation = 0, and the child
   equals the source in every other field and in the edges of RB and CG. *)
C3_RejectLeavesChildUnchanged ==
    (Realized(RED) /\ D(src, src.realize) # {}) =>
        /\ ret = FALSE
        /\ dst.operation = 0
        /\ dst = [copy_state(src) EXCEPT !.operation = 0]

\* the number of indices of array a whose entry satisfies the test
Active(a) == Cardinality({i \in DOMAIN a : a[i] # 0})

NotRemoved(a) == Cardinality({i \in DOMAIN a : a[i] # -1})

Blacks(S) == Cardinality({c \in DOMAIN S.colors : S.colors[c] = BLACK})

(* C7: in every state reached from a loaded instance by accepted realizations
   and Cleanup calls, the active species number n, the active characters
   number m, the characters with current_state # -1 number m, and
   0 <= n <= n0, 0 <= m <= m0. *)
C7_CountsAgree ==
    /\ Active(st.species) = st.num_species
    /\ Active(st.characters) = st.num_characters
    /\ NotRemoved(st.current_states) = st.num_characters
    /\ 0 <= st.num_species /\ st.num_species <= st.num_species_orig
    /\ 0 <= st.num_characters /\ st.num_characters <= st.num_characters_orig
    /\ check_state(st) = 0

\* an accepted realization after which species and characters have been deleted
\* while others are still there
C7_Witness ==
    /\ last = "realize" /\ ret = TRUE
    /\ 0 < st.num_species /\ st.num_species < st.num_species_orig
    /\ 0 < st.num_characters /\ st.num_characters < st.num_characters_orig

(* C8: in every state reached from a loaded instance by accepted realizations,
   each followed by Cleanup, for every character c the conditions
   colors[c] = REMOVED, current_state[c] = -1 and char_active[c] = 0 are
   equivalent. *)
C8_RemovedEquivalence ==
    \A c \in DOMAIN st.colors :
        /\ (st.colors[c] = REMOVED) <=> (st.current_states[c] = -1)
        /\ (st.current_states[c] = -1) <=> (st.characters[c] = 0)

(* C9: in every state reached from a loaded instance by accepted realizations
   and Cleanup, every RB edge joins an active species and a character that is
   BLACK or RED; a REMOVED character has no incident edge. *)
C9_EdgesJoinLiveVertices ==
    /\ \A e \in st.red_black :
          \E s \in DOMAIN st.species, c \in DOMAIN st.colors :
              /\ e = {s, st.num_species_orig + c}
              /\ st.species[s] = 1
              /\ st.colors[c] \in {BLACK, RED}
    /\ \A c \in DOMAIN st.colors :
          st.colors[c] = REMOVED =>
              \A e \in st.red_black : (st.num_species_orig + c) \notin e

\* edges are left beside a deleted species and a REMOVED character
C9_Witness ==
    /\ st.red_black # {}
    /\ \E s \in DOMAIN st.species : st.species[s] = 0
    /\ \E c \in DOMAIN st.colors : st.colors[c] = REMOVED

(* C10: an accepted realization, the Cleanup it runs included, never increases
   n, never increases m and never increases the number of BLACK characters. *)
C10_Monotone ==
    (last = "realize" /\ ret = TRUE) =>
        /\ dst.num_species <= src.num_species
        /\ dst.num_characters <= src.num_characters
        /\ Blacks(dst) <= Blacks(src)

\* an accepted removal of a RED character that also made a species null
C10_Witness ==
    /\ last = "realize" /\ ret = TRUE
    /\ dst.num_species < src.num_species
    /\ dst.num_characters < src.num_characters
    /\ Blacks(dst) < Blacks(src)
    /\ dst.red_black # {}

\* ------------------------------------------------------ claims of the driver
Terminal == {"solution", "END", "abort", "overflow"}

\* exhaustive_search has a step to take: NextDriver is enabled in exactly these states
Running == pc \in {"start", "loop"}

\* the elements of a sequence
Range(q) == {q[i] : i \in DOMAIN q}

(* from S a state with n = 0 is reached by at most k accepted realizations,
   each of a candidate the strategy lists for the state it is applied to *)
RECURSIVE Solvable(_, _, _)
Solvable(S, kind, k) ==
    \/ S.num_species = 0
    \/ /\ k > 0
       /\ \E c \in Range(node_init(kind, S)) :
            LET r == realize_character([S EXCEPT !.realize = c])
            IN  ~r.abort /\ r.ret /\ Solvable(r.dst, kind, k - 1)

\* a character is realized at most twice: BLACK to RED, RED to REMOVED
HasSolution == Solvable(st, strategy, 2 * st.num_characters_orig)

(* C4: the driver reports failure only after backtracking past level 0, and
   then no sequence of accepted realizations of candidates of the strategy
   leads from the loaded state to n = 0; if there is such a sequence the
   driver reports success. *)
C4_Exhaustive ==
    /\ pc = "END" => (level = -1 /\ ~HasSolution)
    /\ (pc \in Terminal /\ HasSolution) => pc = "solution"

(* C5: for every instance and every strategy obeying the contract the driver
   terminates: it eventually reports success or failure.  The search has no
   cycle, so it stops; where it has stopped it has reported. *)
C5_Terminates == pc \in {"solution", "END"} \/ Running

(* C6: on success at level L the driver emits realize[0], ..., realize[L] of the
   slots on the path, each the character whose accepted realization produced
   that level; for 2 2 / 1 0 / 0 1 with the natural order it emits [0, 1]. *)
C6_Witness01 ==
    /\ pc = "solution" =>
          emitted = [i \in 1..(level + 1) |-> states[i - 1].realize]
    /\ (st = S1 /\ strategy = "natural" /\ pc \in Terminal) =>
          (pc = "solution" /\ emitted = <<0, 1>>)

\* ------------------------------------------------- claims of the snapshots
\* a and b agree on the fields of a snapshot, on the per-character arrays and
\* on the edges of both graphs
SameFields(a, b) ==
    /\ a.num_species_orig = b.num_species_orig
    /\ a.num_characters_orig = b.num_characters_orig
    /\ a.num_species = b.num_species
    /\ a.num_characters = b.num_characters
    /\ a.realize = b.realize
    /\ a.tried_characters = b.tried_characters
    /\ a.character_queue = b.character_queue
    /\ a.current_states = b.current_states
    /\ a.species = b.species
    /\ a.characters = b.characters
    /\ a.colors = b.colors
    /\ a.red_black = b.red_black
    /\ a.conflict = b.conflict

(* C11: snapshot round trip: the state read_state reads from what write_state
   wrote equals the written state on the scalar and array fields (the counts,
   realize, tried_characters, character_queue, current, species, characters,
   the colours) and on the edges of RB and CG. *)
C11_RoundTrip ==
    /\ last = "read" => SameFields(st, src)
    /\ pc = "EXIT_SUCCESS" => SameFields(read_state(file), st)

(* C12: for the instance 3 3 / 1 1 0 / 1 0 1 / 0 1 1 and any strategy the
   driver reports no solution: where the search has stopped it has printed
   END, never a solution. *)
C12_S2NoSolution == (st = S2 /\ ~Running) => pc = "END"

\* the search on S2 has stopped
C12_Witness == st = S2 /\ pc = "END" /\ level = -1

\* read_instance_from_filename has loaded the file of S2
LoadedS2 == pc = "true" /\ input = instance_file(S2)

(* C13, as stated: loading 3 3 / 1 1 0 / 1 0 1 / 0 1 1 yields a conflict graph
   whose edges are exactly the triangle (0,1), (0,2), (1,2). *)
C13_TriangleCG == LoadedS2 => st.conflict = {{0, 1}, {0, 2}, {1, 2}}

(* C13, amended: loading 3 3 / 1 1 0 / 1 0 1 / 0 1 1 yields a conflict graph
   without edges: no two columns show the pair (0,0), so no two columns show
   all four pairs. *)
C13_EmptyCG ==
    LoadedS2 =>
        /\ st.conflict = {}
        /\ \A c1, c2 \in 0..2 : c1 # c2 => <<0, 0>> \notin pair_states(st, c1, c2)

\* S2 has been loaded, with its six edges of the red-black graph
C13_Witness == LoadedS2 /\ Cardinality(st.red_black) = 6

(* C14: for the instance 3 2 / 1 0 / 1 1 / 0 1 the driver reports success, and
   a slot of the path to the solution holds a realization with operation 2. *)
C14_S3Success ==
    (st = S3 /\ ~Running) =>
        /\ pc = "solution"
        /\ \E l \in 0..level : states[l].operation = 2

\* S6 after the accepted realization of character 0
S6_first == realize_character([S6 EXCEPT !.realize = 0]).dst

(* C15: from the loaded instance 2 2 / 1 0 / 1 1, realizing character 0 is
   accepted with operation 1; realizing character 0 again on the result is
   accepted with operation 2, and m is then one less than before that second
   attempt. *)
C15_S6Twice ==
    /\ (last = "realize" /\ src = [S6 EXCEPT !.realize = 0]) =>
          (ret /\ ~aborted /\ dst.operation = 1)
    /\ (last = "realize" /\ src = [S6_first EXCEPT !.realize = 0]) =>
          /\ ret /\ ~aborted
          /\ dst.operation = 2
          /\ dst.num_characters = src.num_characters - 1

\* the level next_node returns for the state S in slot 0, and the child it
\* copies to slot 1 when it descends
NextOf(S, kind) ==
    LET r == next_node([l \in 0..last_slot(S) |-> S], 0, kind)
    IN  [level |-> r.level, end |-> r.end,
         child |-> r.states[IF r.level = 1 THEN 1 ELSE 0]]

(* C16: a state reached by three accepted realizations is dumped and reloaded;
   next_node returns the same level for the reloaded state as for the dumped
   one and produces the same child, under the same strategy. *)
C16_ReloadedSameNext ==
    (pc = "EXIT_SUCCESS" /\ index = 3 /\ accepted = 3) =>
        \A kind \in Strategies :
            LET a == NextOf(st, kind)
                b == NextOf(read_state(file), kind)
            IN  /\ a.level = b.level
                /\ a.end = b.end
                /\ a.level = 1 =>
                      /\ SameFields(a.child, b.child)
                      /\ a.child.operation = b.child.operation

\* every cell of the file is 0 or 1
Binary(f) == \A i \in DOMAIN f.cells : f.cells[i] \in {0, 1}

\* the file has a cell outside {0,1}, or ends within its matrix
Malformed(f) ==
    \/ ~Binary(f)
    \/ 0 < Len(f.cells) /\ Len(f.cells) < f.num_species * f.num_characters

(* C17: a freshly loaded state has n = n0, m = m0, every species and character
   active, every colour BLACK, every current_state 0, both lists empty,
   operation = 0 and realize = 0; RB has the edge s - n0+c iff cell (s,c) is 1,
   and no other; CG has the edge (c1,c2) iff the pairs (0,0), (0,1), (1,0), (1,1)
   all occur among the species on the columns c1, c2. *)
C17_FreshState ==
    (pc = "true" /\ Binary(input)) =>
        LET n0 == input.num_species
            m0 == input.num_characters
            cell(s, c) == input.cells[s * m0 + c + 1]
        IN  /\ Len(input.cells) = n0 * m0
            /\ st.num_species_orig = n0 /\ st.num_species = n0
            /\ st.num_characters_orig = m0 /\ st.num_characters = m0
            /\ st.species = [s \in 0..(n0 - 1) |-> 1]
            /\ st.characters = [c \in 0..(m0 - 1) |-> 1]
            /\ st.colors = [c \in 0..(m0 - 1) |-> BLACK]
            /\ st.current_states = [c \in 0..(m0 - 1) |-> 0]
            /\ st.tried_characters = <<>> /\ st.character_queue = <<>>
            /\ st.operation = 0 /\ st.realize = 0
            /\ st.red_black =
                  {{p[1], n0 + p[2]} :
                      p \in {q \in (0..(n0 - 1)) \X (0..(m0 - 1)) : cell(q[1], q[2]) = 1}}
            /\ st.conflict =
                  {{p[1], p[2]} :
                      p \in {q \in (0..(m0 - 1)) \X (0..(m0 - 1)) :
                               /\ q[1] < q[2]
                               /\ \A x, y \in {0, 1} :
                                     \E s \in 0..(n0 - 1) :
                                         cell(s, q[1]) = x /\ cell(s, q[2]) = y}}

\* a loaded instance with edges in both graphs
C17_Witness ==
    /\ pc = "true" /\ Binary(input)
    /\ st.conflict # {}
    /\ st.red_black # {}
    /\ Cardinality(st.red_black) < st.num_species * st.num_characters

(* C18: loading an instance that has a cell outside {0,1}, or that ends before
   all n*m cells are read, fails: no state is produced, and the result is not
   the one of a clean end of input. *)
C18_MalformedInputFails ==
    (pc # "read_instance" /\ Malformed(input)) => pc = "abort"

(* C19: in replay mode only an accepted realization overwrites the working
   state, and a run in which a realization was rejected does not write the
   output and exit with code 0. *)
C19_RejectedEndsReplay ==
    /\ (last = "realize" /\ ~ret /\ ~aborted) => st = src
    /\ pc = "EXIT_SUCCESS" => accepted = index

(* C20: Cleanup is idempotent: cleanup(cleanup(S)) equals cleanup(S) on n, m,
   the species and characters arrays, current_state, the colours and both
   graphs; after a call of Cleanup a second call changes nothing. *)
C20_CleanupIdempotent ==
    (~aborted /\ cleanup_ok(st)) =>
        LET once == cleanup(st)
        IN  /\ cleanup(once) = once
            /\ last = "cleanup" => once = st

\* Cleanup has deleted a null species and a null character and left edges
C20_Witness ==
    /\ last = "cleanup" /\ ~aborted
    /\ st.num_species < st.num_species_orig
    /\ st.num_characters < st.num_characters_orig
    /\ st.red_black # {}
    /\ \A c \in DOMAIN st.colors : st.colors[c] = BLACK

\* ------------------------------------------------- claims of the invariants
\* the cell of species s and character c in the matrix of the loaded instance
MatrixCell(S, s, c) == S.matrix[c + S.num_characters_orig * s]

\* the vertex of character c has no edge in RB
Isolated(S, c) == igraph_es_size(S.red_black, S.num_species_orig + c) = 0

(* C21: in every state reached from a loaded instance by accepted realizations
   and Cleanup, every BLACK character whose vertex is isolated in RB has no
   1-entry in the matrix row of any species that is still active (which is the
   case when no species is active). *)
C21_IsolatedBlackIsNull ==
    ~aborted =>
        \A c \in DOMAIN st.colors :
            (st.colors[c] = BLACK /\ Isolated(st, c)) =>
                \/ st.num_species = 0
                \/ \A s \in DOMAIN st.species :
                      st.species[s] = 1 => MatrixCell(st, s, c) # 1

\* Cleanup has deleted a BLACK isolated character, and a species that is still
\* active has a 1-entry for another character
C21_Witness ==
    /\ last = "cleanup" /\ ~aborted
    /\ \E c \in DOMAIN st.colors :
          st.colors[c] = BLACK /\ Isolated(st, c) /\ st.characters[c] = 0
    /\ \E s \in DOMAIN st.species, c \in DOMAIN st.colors :
          st.species[s] = 1 /\ MatrixCell(st, s, c) = 1

(* C22: copy_state(dst, src) makes dst equal to src on n, m, n0, m0,
   current_states, species, characters, the colours, realize, operation and the
   edges of RB and CG, so that state_cmp(dst, src) = 0, and leaves
   tried_characters and character_queue of dst empty whatever the lists of src
   hold.  The sources are the slots of the search. *)
C22_CopyState ==
    \A l \in DOMAIN states :
        check_state(states[l]) = 0 =>
            LET from == states[l]
                to   == copy_state(from)
            IN  /\ to.num_species = from.num_species
                /\ to.num_characters = from.num_characters
                /\ to.num_species_orig = from.num_species_orig
                /\ to.num_characters_orig = from.num_characters_orig
                /\ to.current_states = from.current_states
                /\ to.species = from.species
                /\ to.characters = from.characters
                /\ to.colors = from.colors
                /\ to.realize = from.realize
                /\ to.operation = from.operation
                /\ to.red_black = from.red_black
                /\ to.conflict = from.conflict
                /\ state_cmp(to, from) = 0
                /\ to.tried_characters = <<>>
                /\ to.character_queue = <<>>

\* a slot the search descended to holds a RED character and an accepted
\* operation, and both of its lists are non-empty
C22_Witness ==
    /\ pc = "loop" /\ level >= 1
    /\ states[level].tried_characters # <<>>
    /\ states[level].character_queue # <<>>
    /\ states[level].operation > 0
    /\ \E c \in DOMAIN states[level].colors : states[level].colors[c] = RED

\* ------------------------------------------------ claims of a search step
\* exhaustive_search calls next_node in the step it takes from this state
Calls ==
    \/ pc = "start"
    \/ /\ pc = "loop" /\ level # -1
       /\ cleanup_ok(states[level])
       /\ cleanup(states[level]).num_species # 0

\* the level next_node is called at, and the slot it is called on
CallLevel == IF pc = "start" THEN 0 ELSE level

CallSlot == IF pc = "start" THEN states[0] ELSE cleanup(states[level])

\* the character_queue of the slot after the Enter-level step
EnteredQueue ==
    IF CallSlot.tried_characters = <<>> /\ CallSlot.character_queue = <<>>
    THEN node_init(strategy, CallSlot)
    ELSE CallSlot.character_queue

\* the realization of the candidate popped from the queue
AttemptOfHead ==
    realize_character([CallSlot EXCEPT !.realize = Head(EnteredQueue)])

(* C23: a call of next_node at level L that returns, returns L-1, L or L+1:
   L-1 exactly when the character_queue of the slot is empty after the
   Enter-level step, L+1 exactly when the realization of the popped candidate
   has operation > 0, L exactly when that realization was rejected,
   operation = 0. *)
C23_ReturnedLevel ==
    [][(Calls /\ pc' = "loop") =>
          /\ level' \in {CallLevel - 1, CallLevel, CallLevel + 1}
          /\ (level' = CallLevel - 1) <=> (EnteredQueue = <<>>)
          /\ (level' = CallLevel + 1) <=>
                (EnteredQueue # <<>> /\ AttemptOfHead.dst.operation > 0)
          /\ (level' = CallLevel) <=>
                (EnteredQueue # <<>> /\ AttemptOfHead.dst.operation = 0)]_vars

(* C24: in a Step at level L the character that is realized is the head c
   popped from the character_queue of slot L, the queue loses exactly its head,
   and after an accepted realization the child copied into slot L+1 has
   realize = c. *)
C24_RealizesPoppedHead ==
    [][(Calls /\ EnteredQueue # <<>>) =>
          /\ states'[CallLevel].character_queue = Tail(EnteredQueue)
          /\ (pc' = "loop" /\ level' = CallLevel + 1) =>
                states'[level'].realize = Head(EnteredQueue)]_vars

(* C25: in every run of the driver on an instance with m0 characters the level
   stays within [0, m0] until the search ends (-1 is the value that ends it),
   and no descent writes past the last slot of the array of m0 + 1 states. *)
C25_LevelInRange ==
    /\ pc # "overflow"
    /\ DOMAIN states = 0..st.num_characters_orig
    /\ pc = "loop" => (level = -1 \/ (0 <= level /\ level <= st.num_characters_orig))
    /\ pc \in {"start", "solution", "abort"} =>
          (0 <= level /\ level <= st.num_characters_orig)

\* a descent has reached the last slot
C25_Witness ==
    /\ pc = "loop"
    /\ level = st.num_characters_orig
    /\ states[level].operation > 0

\* the state S without its two lists
WithoutLists(S) == [S EXCEPT !.tried_characters = <<>>, !.character_queue = <<>>]

(* C26: a realization attempt never changes its source state: after an
   accepted or a rejected realization from slot L the counts, the arrays, the
   colours, RB and CG of slot L are as before; a call of next_node at level L
   leaves the slots 0..L-1 unchanged and changes in slot L only
   character_queue and tried_characters. *)
C26_SourceUnchanged ==
    [][Calls =>
          /\ \A l \in 0..(CallLevel - 1) : states'[l] = states[l]
          /\ WithoutLists(states'[CallLevel]) = WithoutLists(CallSlot)]_vars

\* slot 0 is as it was loaded, but for its lists, after the accepted realization
\* that produced slot 1, and a realization from slot 1 has been rejected
C26_Witness ==
    /\ pc = "loop" /\ level = 1
    /\ states[0].tried_characters # <<>>
    /\ WithoutLists(states[0]) = st
    /\ states[1].tried_characters # <<>>
    /\ states[1].operation = 1

(* C27: the strategy is consulted for a slot only when both tried_characters
   and character_queue are empty, on the first visit; once a candidate has been
   popped at a level a later call at that level never repopulates the queue
   (a call with a non-empty tried_characters leaves the queue as it is or
   without its head, and with an empty queue it backtracks), every level the
   search has descended from has a non-empty tried_characters, and every slot
   produced by a descent starts with both lists empty. *)
C27_ConsultedOnce ==
    [][Calls =>
          /\ CallSlot.tried_characters # <<>> =>
                /\ EnteredQueue = CallSlot.character_queue
                /\ states'[CallLevel].character_queue =
                      IF CallSlot.character_queue = <<>> THEN <<>>
                      ELSE Tail(CallSlot.character_queue)
                /\ CallSlot.character_queue = <<>> => level' = CallLevel - 1
          /\ CallSlot.tried_characters = <<>> => CallSlot.character_queue = <<>>
          /\ \A l \in 0..(level' - 1) : states'[l].tried_characters # <<>>
          /\ (pc' = "loop" /\ level' = CallLevel + 1) =>
                /\ states'[level'].tried_characters = <<>>
                /\ states'[level'].character_queue = <<>>]_vars

\* the search has descended, come back to level 0 with an empty queue and
\* backtracked past it without asking the strategy again
C27_Witness ==
    /\ level = -1
    /\ states[0].tried_characters # <<>>
    /\ states[0].character_queue = <<>>
    /\ states[1].operation > 0
    /\ states[1].tried_characters # <<>>

(* C28: tried_characters of a slot is the sequence of the characters that have
   been popped and attempted at that level during the current visit: a Step
   adds the candidate it pops, so that after k Steps at a level the list holds
   exactly those k candidates. *)
C28_TriedAreThePopped ==
    [][(Calls /\ EnteredQueue # <<>>) =>
          /\ Len(states'[CallLevel].tried_characters)
                = Len(CallSlot.tried_characters) + 1
          /\ Range(states'[CallLevel].tried_characters)
                = Range(CallSlot.tried_characters) \cup {Head(EnteredQueue)}]_vars

\* the edge e joins a species and a character of S
Bipartite(S, e) ==
    \E u, v \in e :
        /\ e = {u, v}
        /\ 0 <= u /\ u < S.num_species_orig
        /\ S.num_species_orig <= v
        /\ v < S.num_species_orig + S.num_characters_orig

(* C29: RB stays bipartite: in every state reached from a loaded instance by
   realizations and Cleanup every RB edge has one species endpoint (id < n0)
   and one character endpoint (id >= n0); the edges a BLACK realization adds
   join the realized character to species, never to a character, even when
   other characters lie in its component. *)
C29_Bipartite ==
    /\ \A e \in st.red_black : Bipartite(st, e)
    /\ \A e \in dst.red_black : Bipartite(dst, e)
    /\ (last = "realize" /\ src.colors[src.realize] = BLACK) =>
          \A e \in pre.red_black \ src.red_black :
              /\ (src.num_species_orig + src.realize) \in e
              /\ \E s \in e : s < src.num_species_orig

\* an accepted BLACK realization has added red edges for a character whose
\* component holds another character
C29_Witness ==
    /\ last = "realize" /\ ret = TRUE
    /\ src.colors[src.realize] = BLACK
    /\ pre.red_black \ src.red_black # {}
    /\ \E v \in igraph_subcomponent(src.red_black, src.num_species_orig + src.realize) :
          v >= src.num_species_orig /\ v # src.num_species_orig + src.realize

(* C30: in a run of the driver on a loaded instance, with a strategy that
   lists active characters only, no assertion of the engine fails: check_state
   is 0 wherever it is asserted, and delete_species and delete_character are
   never called for a species or a character that is inactive. *)
C30_NoAssertionFails ==
    /\ pc # "abort"
    /\ (pc = "loop" /\ level >= 0) => check_state(states[level]) = 0

====
